---------------------------- MODULE Spec2Model ----------------------------
(***************************************************************************)
(* A model of SpellCheckerHMM (src/spell_corrector.py): a character-level  *)
(* hidden Markov model trained from (correct, typed) pairs and decoded     *)
(* with the Viterbi algorithm.                                             *)
(*                                                                         *)
(* Representation.                                                         *)
(*  - A Python str is a sequence of one-character strings.                 *)
(*  - A Python dict / Counter is a sequence of <<key, value>> pairs in     *)
(*    insertion order (the order .items() yields).                         *)
(*  - A log-probability math.log(count / total) is the reduced fraction    *)
(*    <<count, total>>; float("-inf") is <<0, 1>>.  Adding logs is         *)
(*    multiplying the fractions, comparing logs is comparing them.  This   *)
(*    is exact arithmetic: float rounding is not modelled.                 *)
(***************************************************************************)
EXTENDS Integers, Sequences, FiniteSets, TLC

VARIABLES hmm, op, arg, ret, locals, history, snapshot

vars == <<hmm, op, arg, ret, locals, history, snapshot>>

-----------------------------------------------------------------------------
(* Bounds and input universes *)

\* at most this many pairs are ever passed to train, over all calls
MaxPairs == 3

END_STATE == "<END>"

None == "None"

NL == "\n"

LowerLetters == {"e", "h", "t"}

UpperLetters == {"E", "H", "T"}

Whitespace == {" ", NL}

-----------------------------------------------------------------------------
(* Python str *)

CodePoint(c) ==
    CASE c = NL  -> 10
      [] c = " " -> 32
      [] c = "1" -> 49
      [] c = "E" -> 69
      [] c = "H" -> 72
      [] c = "T" -> 84
      [] c = "e" -> 101
      [] c = "h" -> 104
      [] c = "t" -> 116
      [] OTHER   -> 0

CharLower(c) ==
    CASE c = "E" -> "e"
      [] c = "H" -> "h"
      [] c = "T" -> "t"
      [] OTHER   -> c

CharUpper(c) ==
    CASE c = "e" -> "E"
      [] c = "h" -> "H"
      [] c = "t" -> "T"
      [] OTHER   -> c

CharIsUpper(c) == c \in UpperLetters

CharIsCased(c) == c \in UpperLetters \cup LowerLetters

Range(s) == {s[i] : i \in DOMAIN s}

StrLower(s) == [i \in 1..Len(s) |-> CharLower(s[i])]

StrUpper(s) == [i \in 1..Len(s) |-> CharUpper(s[i])]

\* str.isupper(): at least one cased character, and no cased one is lowercase
StrIsUpper(s) ==
    /\ \E i \in DOMAIN s : CharIsCased(s[i])
    /\ \A i \in DOMAIN s : CharIsCased(s[i]) => CharIsUpper(s[i])

\* str.capitalize(): first character uppercased, the rest lowercased
StrCapitalize(s) ==
    [i \in 1..Len(s) |-> IF i = 1 THEN CharUpper(s[i]) ELSE CharLower(s[i])]

RECURSIVE LStrip(_)
LStrip(s) ==
    IF s # <<>> /\ s[1] \in Whitespace THEN LStrip(Tail(s)) ELSE s

RECURSIVE RStrip(_)
RStrip(s) ==
    IF s # <<>> /\ s[Len(s)] \in Whitespace
    THEN RStrip(SubSeq(s, 1, Len(s) - 1))
    ELSE s

StrStrip(s) == RStrip(LStrip(s))

\* str.split(): the maximal runs of non-whitespace characters, in order
RECURSIVE SplitFrom(_, _, _)
SplitFrom(text, cur, acc) ==
    IF text = <<>>
    THEN IF cur = <<>> THEN acc ELSE Append(acc, cur)
    ELSE IF text[1] \in Whitespace
         THEN SplitFrom(Tail(text), <<>>,
                        IF cur = <<>> THEN acc ELSE Append(acc, cur))
         ELSE SplitFrom(Tail(text), Append(cur, text[1]), acc)

StrSplit(text) == SplitFrom(text, <<>>, <<>>)

\* " ".join(words)
RECURSIVE StrJoin(_)
StrJoin(words) ==
    IF words = <<>> THEN <<>>
    ELSE IF Len(words) = 1 THEN words[1]
    ELSE words[1] \o <<" ">> \o StrJoin(Tail(words))

\* "".join(list of one-character strings)
Concat(chars) == chars

-----------------------------------------------------------------------------
(* Python dict, Counter and defaultdict *)

DictKeys(d) == {d[i][1] : i \in DOMAIN d}

DictHas(d, k) == \E i \in DOMAIN d : d[i][1] = k

DictIndex(d, k) == CHOOSE i \in DOMAIN d : d[i][1] = k

\* d.get(k, default)
DictGet(d, k, default) ==
    IF DictHas(d, k) THEN d[DictIndex(d, k)][2] ELSE default

\* d[k] = v : an existing key keeps its place, a new one goes last
DictSet(d, k, v) ==
    IF DictHas(d, k)
    THEN [d EXCEPT ![DictIndex(d, k)] = <<k, v>>]
    ELSE Append(d, <<k, v>>)

\* counter[k] += 1 on a Counter (a missing key reads as 0)
CounterInc(c, k) == DictSet(c, k, DictGet(c, k, 0) + 1)

\* d[k1][k2] += 1 on a defaultdict(Counter)
NestedInc(d, k1, k2) == DictSet(d, k1, CounterInc(DictGet(d, k1, <<>>), k2))

\* what reading d[k] leaves in a defaultdict(Counter): a missing key is
\* inserted with an empty Counter
DefaultGetItem(d, k) == IF DictHas(d, k) THEN d ELSE Append(d, <<k, <<>>>>)

\* sorted(set of characters): ascending code points
RECURSIVE Sorted(_)
Sorted(S) ==
    IF S = {} THEN <<>>
    ELSE LET m == CHOOSE x \in S : \A y \in S : CodePoint(x) <= CodePoint(y)
         IN  <<m>> \o Sorted(S \ {m})

-----------------------------------------------------------------------------
(* Log-probabilities *)

NEG_INF == <<0, 1>>

RECURSIVE GCD(_, _)
GCD(a, b) == IF b = 0 THEN a ELSE GCD(b, a % b)

Reduce(n, d) == LET g == GCD(n, d) IN <<n \div g, d \div g>>

\* math.log(count / total), for count > 0 and total > 0
Log(count, total) == Reduce(count, total)

IsFinite(x) == x[1] # 0

\* x + y on floats holding log-probabilities
LogAdd(x, y) ==
    IF x[1] = 0 \/ y[1] = 0 THEN NEG_INF ELSE Reduce(x[1] * y[1], x[2] * y[2])

\* x > y
LogGT(x, y) == x[1] * y[2] > y[1] * x[2]

LogGE(x, y) == x[1] * y[2] >= y[1] * x[2]

-----------------------------------------------------------------------------
(* SpellCheckerHMM.__init__ *)

EmptyModel ==
    [ states               |-> <<>>,
      state_set            |-> {},
      start_counts         |-> <<>>,
      start_total          |-> 0,
      transition_counts    |-> <<>>,
      transition_totals    |-> <<>>,
      emission_counts      |-> <<>>,
      emission_totals      |-> <<>>,
      start_log_probs      |-> <<>>,
      transition_log_probs |-> <<>>,
      emission_log_probs   |-> <<>> ]

-----------------------------------------------------------------------------
(* SpellCheckerHMM.train *)

\* for idx in range(len(letters) - 1): count letters[idx] -> letters[idx + 1]
RECURSIVE AddTransitions(_, _, _)
AddTransitions(m, letters, idx) ==
    IF idx > Len(letters) - 1 THEN m
    ELSE AddTransitions(
           [m EXCEPT !.transition_counts =
                         NestedInc(@, letters[idx], letters[idx + 1]),
                     !.transition_totals = CounterInc(@, letters[idx])],
           letters, idx + 1)

\* variant: no closing transition is counted
NoEndTransition(m, letters) == m

\* the closing transition from the last letter to END_STATE
AddEndTransition(m, letters) ==
    LET last_state == letters[Len(letters)]
    IN  [m EXCEPT !.transition_counts = NestedInc(@, last_state, END_STATE),
                  !.transition_totals = CounterInc(@, last_state)]

\* variant: a position at or beyond len(typed) is recorded as the letter
\* emitting itself
RECURSIVE AddEmissionsPadded(_, _, _, _)
AddEmissionsPadded(m, letters, typed, idx) ==
    IF idx > Len(letters) THEN m
    ELSE LET typed_char == IF idx > Len(typed) THEN letters[idx]
                           ELSE typed[idx]
         IN  AddEmissionsPadded(
               [m EXCEPT !.emission_counts = NestedInc(@, letters[idx],
                                                       typed_char),
                         !.emission_totals = CounterInc(@, letters[idx])],
               letters, typed, idx + 1)

\* for idx, state_char in enumerate(letters): positions at or beyond
\* len(typed) record nothing
RECURSIVE AddEmissions(_, _, _, _)
AddEmissions(m, letters, typed, idx) ==
    IF idx > Len(letters) THEN m
    ELSE IF idx > Len(typed) THEN AddEmissions(m, letters, typed, idx + 1)
    ELSE AddEmissions(
           [m EXCEPT !.emission_counts = NestedInc(@, letters[idx], typed[idx]),
                     !.emission_totals = CounterInc(@, letters[idx])],
           letters, typed, idx + 1)

\* one iteration of the loop over pairs
TrainPair(m, pair) ==
    LET correct == StrLower(StrStrip(pair[1]))
        typed   == StrLower(StrStrip(pair[2]))
    IN  IF correct = <<>> \/ typed = <<>> THEN m
        ELSE LET m1 == [m EXCEPT !.state_set = @ \cup Range(correct)]
                 m2 == [m1 EXCEPT !.start_counts = CounterInc(@, correct[1]),
                                  !.start_total = @ + 1]
                 m3 == AddTransitions(m2, correct, 1)
                 m4 == AddEndTransition(m3, correct)
             IN  AddEmissions(m4, correct, typed, 1)

RECURSIVE TrainPairs(_, _)
TrainPairs(m, pairs) ==
    IF pairs = <<>> THEN m
    ELSE TrainPairs(TrainPair(m, pairs[1]), Tail(pairs))

-----------------------------------------------------------------------------
(* SpellCheckerHMM._finalize_probabilities *)

StartLogProbs(m) ==
    [i \in 1..Len(m.states) |->
        LET count == DictGet(m.start_counts, m.states[i], 0)
        IN  <<m.states[i],
              IF m.start_total = 0 \/ count = 0 THEN NEG_INF
              ELSE Log(count, m.start_total)>>]

\* the inner loop: one entry per item of counter with a non-zero count
RECURSIVE LogEntries(_, _)
LogEntries(counter, total) ==
    IF counter = <<>> THEN <<>>
    ELSE LET rest == LogEntries(Tail(counter), total)
         IN  IF counter[1][2] = 0 THEN rest
             ELSE <<<<counter[1][1], Log(counter[1][2], total)>>>> \o rest

\* the outer loop over self.states, for the transition or the emission table:
\* a state with a zero total is skipped, and a state's entry exists only
\* once one of its items is stored
RECURSIVE LogTable(_, _, _)
LogTable(sts, counts, totals) ==
    IF sts = <<>> THEN <<>>
    ELSE LET total   == DictGet(totals, sts[1], 0)
             entries == LogEntries(DictGet(counts, sts[1], <<>>), total)
             rest    == LogTable(Tail(sts), counts, totals)
         IN  IF total = 0 \/ entries = <<>> THEN rest
             ELSE <<<<sts[1], entries>>>> \o rest

\* variant: tables that are already built are kept, not recomputed
FinalizeOnce(m) ==
    IF m.start_log_probs # <<>> THEN m
    ELSE [m EXCEPT
            !.start_log_probs = StartLogProbs(m),
            !.transition_log_probs =
                LogTable(m.states, m.transition_counts, m.transition_totals),
            !.emission_log_probs =
                LogTable(m.states, m.emission_counts, m.emission_totals)]

Finalize(m) ==
    LET cleared == [m EXCEPT !.start_log_probs = <<>>,
                             !.transition_log_probs = <<>>,
                             !.emission_log_probs = <<>>]
    IN  IF m.states = <<>> THEN cleared
        ELSE [cleared EXCEPT
                !.start_log_probs = StartLogProbs(m),
                !.transition_log_probs =
                    LogTable(m.states, m.transition_counts, m.transition_totals),
                !.emission_log_probs =
                    LogTable(m.states, m.emission_counts, m.emission_totals)]

\* train(pairs): the loop, then the alphabet, then the tables
TrainModel(m, pairs) ==
    LET m1 == TrainPairs(m, pairs)
        m2 == [m1 EXCEPT !.state_set = @ \ {NL}]
        m3 == [m2 EXCEPT !.states = Sorted(m2.state_set)]
    IN  Finalize(m3)

-----------------------------------------------------------------------------
(* The three lookups *)

\* `cached and key in cached`, for cached = table.get(state)
CacheHit(table, state, key) ==
    LET cached == DictGet(table, state, <<>>)
    IN  cached # <<>> /\ DictHas(cached, key)

LogStartProb(m, state) ==
    IF m.start_log_probs # <<>>
    THEN DictGet(m.start_log_probs, state, NEG_INF)
    ELSE LET total == m.start_total
             count == DictGet(m.start_counts, state, 0)
         IN  IF total = 0 \/ count = 0 THEN NEG_INF ELSE Log(count, total)

\* the value _log_transition_prob returns
LogTransitionProb(m, prev_state, next_state) ==
    IF CacheHit(m.transition_log_probs, prev_state, next_state)
    THEN DictGet(DictGet(m.transition_log_probs, prev_state, <<>>),
                 next_state, NEG_INF)
    ELSE LET total == DictGet(m.transition_totals, prev_state, 0)
             count == DictGet(DictGet(m.transition_counts, prev_state, <<>>),
                              next_state, 0)
         IN  IF total = 0 \/ count = 0 THEN NEG_INF ELSE Log(count, total)

\* the model _log_transition_prob leaves: past the cache it reads
\* self.transition_counts[prev_state], a defaultdict
TransitionRead(m, prev_state, next_state) ==
    IF CacheHit(m.transition_log_probs, prev_state, next_state) THEN m
    ELSE [m EXCEPT !.transition_counts = DefaultGetItem(@, prev_state)]

\* the value _log_emission_prob returns
LogEmissionProb(m, state, observation) ==
    IF CacheHit(m.emission_log_probs, state, observation)
    THEN DictGet(DictGet(m.emission_log_probs, state, <<>>),
                 observation, NEG_INF)
    ELSE LET count == DictGet(DictGet(m.emission_counts, state, <<>>),
                              observation, 0)
             total == DictGet(m.emission_totals, state, 0)
         IN  IF total = 0 \/ count = 0 THEN NEG_INF ELSE Log(count, total)

\* variant: past the cache the lookup also counts the pair it looked up
EmissionReadRecords(m, state, observation) ==
    IF CacheHit(m.emission_log_probs, state, observation) THEN m
    ELSE [m EXCEPT !.emission_counts = NestedInc(@, state, observation),
                   !.emission_totals = CounterInc(@, state)]

\* the model _log_emission_prob leaves: past the cache it reads
\* self.emission_counts[state], a defaultdict
EmissionRead(m, state, observation) ==
    IF CacheHit(m.emission_log_probs, state, observation) THEN m
    ELSE [m EXCEPT !.emission_counts = DefaultGetItem(@, state)]

-----------------------------------------------------------------------------
(* The inspectors *)

\* one step of a stable descending sort: kv goes after every item that is
\* not smaller
RECURSIVE InsertDesc(_, _)
InsertDesc(sorted, kv) ==
    IF sorted = <<>> THEN <<kv>>
    ELSE IF LogGE(sorted[1][2], kv[2])
         THEN <<sorted[1]>> \o InsertDesc(Tail(sorted), kv)
         ELSE <<kv>> \o sorted

\* sorted(items, key=lambda kv: kv[1], reverse=True)
RECURSIVE SortDescFrom(_, _)
SortDescFrom(items, sorted) ==
    IF items = <<>> THEN sorted
    ELSE SortDescFrom(Tail(items), InsertDesc(sorted, items[1]))

\* variant: the items are returned in the table's own order
Unsorted(items) == items

SortedDesc(items) == SortDescFrom(items, <<>>)

TransitionLogDistribution(m, state) ==
    SortedDesc(DictGet(m.transition_log_probs, state, <<>>))

EmissionLogDistribution(m, state) ==
    SortedDesc(DictGet(m.emission_log_probs, state, <<>>))

-----------------------------------------------------------------------------
(* SpellCheckerHMM.decode_word                                             *)
(* Every loop carries the model m, because the lookups may write to it.    *)

\* `if not word or not self.states: return word`
EarlyReturn(m, word) == word = <<>> \/ m.states = <<>>

\* variant: the early return hands back the lowercased word
EarlyValueLower(word) == StrLower(word)

\* what the early return hands back: `return word`
EarlyValue(word) == word

\* variant: `if score >= best_score`
ImprovesOrEqual(score, best_score) == LogGE(score, best_score)

\* `if score > best_score` in the loop over prev_state
Improves(score, best_score) == LogGT(score, best_score)

\* variant: the final loop compares with -inf instead of the best so far
ImprovesFinalAnyFinite(total_score, final_score) == IsFinite(total_score)

\* `if total_score > final_score` in the loop over the final states
ImprovesFinal(total_score, final_score) == LogGT(total_score, final_score)

\* the loop over self.states at position 0
RECURSIVE InitLoop(_, _, _)
InitLoop(acc, first_obs, k) ==
    IF k > Len(acc.m.states) THEN acc
    ELSE LET state == acc.m.states[k]
             score == LogAdd(LogStartProb(acc.m, state),
                             LogEmissionProb(acc.m, state, first_obs))
         IN  InitLoop([m    |-> EmissionRead(acc.m, state, first_obs),
                       row  |-> DictSet(acc.row, state, score),
                       path |-> DictSet(acc.path, state, <<state>>)],
                      first_obs, k + 1)

\* the loop over prev_state for one curr_state
RECURSIVE PrevLoop(_, _, _, _, _)
PrevLoop(acc, prev_row, path, curr_state, k) ==
    IF k > Len(acc.m.states) THEN acc
    ELSE LET prev_state == acc.m.states[k]
             Body(score, m1) ==
                 IF Improves(score, acc.best_score)
                 THEN [m |-> m1, best_prev |-> prev_state,
                       best_score |-> score]
                 ELSE [acc EXCEPT !.m = m1]
         IN  IF ~DictHas(path, prev_state) \/ ~DictHas(prev_row, prev_state)
             THEN PrevLoop(acc, prev_row, path, curr_state, k + 1)
             ELSE PrevLoop(
                    Body(LogAdd(DictGet(prev_row, prev_state, NEG_INF),
                                LogTransitionProb(acc.m, prev_state,
                                                  curr_state)),
                         TransitionRead(acc.m, prev_state, curr_state)),
                    prev_row, path, curr_state, k + 1)

\* the loop over curr_state at one position; prevs records each best_prev
RECURSIVE CurrLoop(_, _, _, _, _)
CurrLoop(acc, prev_row, path, obs_char, k) ==
    IF k > Len(acc.m.states) THEN acc
    ELSE LET curr_state == acc.m.states[k]
             Body(emission_score, r) ==
                 IF r.best_prev # None
                 THEN [m        |-> r.m,
                       row      |-> DictSet(acc.row, curr_state,
                                            LogAdd(r.best_score,
                                                   emission_score)),
                       new_path |-> DictSet(acc.new_path, curr_state,
                                            Append(DictGet(path, r.best_prev,
                                                           <<>>),
                                                   curr_state)),
                       prevs    |-> DictSet(acc.prevs, curr_state,
                                            r.best_prev)]
                 ELSE [m        |-> r.m,
                       row      |-> DictSet(acc.row, curr_state, NEG_INF),
                       new_path |-> acc.new_path,
                       prevs    |-> DictSet(acc.prevs, curr_state, None)]
         IN  CurrLoop(
               Body(LogEmissionProb(acc.m, curr_state, obs_char),
                    PrevLoop([m |-> EmissionRead(acc.m, curr_state, obs_char),
                              best_prev |-> None, best_score |-> NEG_INF],
                             prev_row, path, curr_state, 1)),
               prev_row, path, obs_char, k + 1)

\* for index in range(1, length): positions are 1-based here, so index
\* runs from 2 to Len(observed)
RECURSIVE IndexLoop(_, _, _)
IndexLoop(acc, observed, index) ==
    IF index > Len(observed) THEN acc
    ELSE LET Body(r) ==
                 [m          |-> r.m,
                  viterbi    |-> Append(acc.viterbi, r.row),
                  path       |-> r.new_path,
                  best_prevs |-> Append(acc.best_prevs, r.prevs)]
         IN  IndexLoop(
               Body(CurrLoop([m |-> acc.m, row |-> <<>>, new_path |-> <<>>,
                              prevs |-> <<>>],
                             acc.viterbi[index - 1], acc.path,
                             observed[index], 1)),
               observed, index + 1)

\* the loop choosing final_state
RECURSIVE FinalLoop(_, _, _)
FinalLoop(acc, last_row, k) ==
    IF k > Len(acc.m.states) THEN acc
    ELSE LET state == acc.m.states[k]
             Body(total_score, m1) ==
                 IF ImprovesFinal(total_score, acc.final_score)
                 THEN [m |-> m1, final_state |-> state,
                       final_score |-> total_score]
                 ELSE [acc EXCEPT !.m = m1]
         IN  IF ~DictHas(last_row, state) THEN FinalLoop(acc, last_row, k + 1)
             ELSE FinalLoop(
                    Body(LogAdd(DictGet(last_row, state, NEG_INF),
                                LogTransitionProb(acc.m, state, END_STATE)),
                         TransitionRead(acc.m, state, END_STATE)),
                    last_row, k + 1)

\* variant: the fallback hands back the lowercased word
NoPathReturnLower(word) == StrLower(word)

\* `return word` when final_state is None
NoPathReturn(word) == word

\* variant: the first-character test comes before the all-uppercase test
RestoreCaseSwapped(word, decoded) ==
    IF CharIsUpper(word[1]) THEN StrCapitalize(decoded)
    ELSE IF StrIsUpper(word) THEN StrUpper(decoded)
    ELSE decoded

\* the case of the input put back on the decoded string
RestoreCase(word, decoded) ==
    IF StrIsUpper(word) THEN StrUpper(decoded)
    ELSE IF CharIsUpper(word[1]) THEN StrCapitalize(decoded)
    ELSE decoded

\* the local variables of a call that returned before the search
NoLocals ==
    [viterbi |-> <<>>, path |-> <<>>, best_prevs |-> <<>>,
     final_state |-> None, final_score |-> NEG_INF]

\* an exception leaving a call, in the place of its return value
Raised(exception) == <<exception>>

\* decode_word(word) on model m: the model it leaves, what it returns, and
\* its local variables at the return (NoLocals on the early return)
DecodeWord(m, word) ==
    IF EarlyReturn(m, word)
    THEN [m |-> m, ret |-> EarlyValue(word), locals |-> NoLocals]
    ELSE LET Return(it, fl) ==
                 [m      |-> fl.m,
                  locals |-> [viterbi     |-> it.viterbi,
                              path        |-> it.path,
                              best_prevs  |-> it.best_prevs,
                              final_state |-> fl.final_state,
                              final_score |-> fl.final_score],
                  ret    |-> IF fl.final_state = None THEN NoPathReturn(word)
                             ELSE IF ~DictHas(it.path, fl.final_state)
                                  THEN Raised("KeyError")
                                  ELSE RestoreCase(word,
                                         Concat(DictGet(it.path,
                                                        fl.final_state,
                                                        <<>>)))]
             Final(observed, it) ==
                 Return(it, FinalLoop([m |-> it.m, final_state |-> None,
                                       final_score |-> NEG_INF],
                                      it.viterbi[Len(observed)], 1))
             Index(observed, i0) ==
                 Final(observed,
                       IndexLoop([m |-> i0.m, viterbi |-> <<i0.row>>,
                                  path |-> i0.path, best_prevs |-> <<<<>>>>],
                                 observed, 2))
             First(observed) ==
                 Index(observed,
                       InitLoop([m |-> m, row |-> <<>>, path |-> <<>>],
                                observed[1], 1))
         IN  First(StrLower(word))

-----------------------------------------------------------------------------
(* SpellCheckerHMM.decode_text *)

\* [self.decode_word(word) for word in words]
RECURSIVE DecodeWords(_, _, _)
DecodeWords(m, words, corrected_words) ==
    IF words = <<>> THEN [m |-> m, corrected_words |-> corrected_words]
    ELSE LET Rest(r) ==
                 DecodeWords(r.m, Tail(words), Append(corrected_words, r.ret))
         IN  Rest(DecodeWord(m, words[1]))

DecodeText(m, text) ==
    LET Joined(r) == [m |-> r.m, ret |-> StrJoin(r.corrected_words)]
    IN  Joined(DecodeWords(m, StrSplit(text), <<>>))

-----------------------------------------------------------------------------
(* Inputs *)

PairUniverse ==
    { <<<<"t", "h", "e">>, <<"t", "h", "e">>>>,
      <<<<"t", "h", "e">>, <<"t", "e", "h">>>>,
      <<<<" ">>, <<"t">>>>,
      <<<<" ", "E", "t", "h">>, <<"1", "1", "1", " ">>>>,
      <<<<"h", "t", "e">>, <<"1", "1">>>> }

Words ==
    { <<>>,
      <<"t", "e", "h">>, <<"t", "h", "e">>, <<"T", "E", "H">>,
      <<"T", "e", "h">>,
      <<"1">>, <<"1", "1", "1">>,
      <<"t", "1">>, <<"1", "T">> }

Texts ==
    { <<"t", "e", "h", " ", "t", "e", "h">>,
      <<" ", "1", " ", NL, "T", "1", NL>> }

QueryStates == {"e", "t", "1"}

SeqsUpTo(S, n) == UNION {[1..k -> S] : k \in 0..n}

-----------------------------------------------------------------------------
(* The state machine: one SpellCheckerHMM and the calls made on it.        *)
(*   hmm      the object's fields                                          *)
(*   op, arg, ret   the last call, its argument and what it returned       *)
(*   locals   decode_word's local variables when it returned               *)
(*   history  every pair passed to train so far, in order                  *)
(*   snapshot the fields as the last train call (or __init__) left them    *)

Init ==
    /\ hmm = EmptyModel
    /\ op = "init"
    /\ arg = None
    /\ ret = None
    /\ locals = NoLocals
    /\ history = <<>>
    /\ snapshot = EmptyModel

Train(pairs) ==
    /\ Len(history) + Len(pairs) <= MaxPairs
    /\ hmm' = TrainModel(hmm, pairs)
    /\ op' = "train"
    /\ arg' = pairs
    /\ ret' = None
    /\ locals' = NoLocals
    /\ history' = history \o pairs
    /\ snapshot' = hmm'

DecodeWordCall(word) ==
    \E r \in {DecodeWord(hmm, word)} :
        /\ hmm' = r.m
        /\ op' = "decode_word"
        /\ arg' = word
        /\ ret' = r.ret
        /\ locals' = r.locals
        /\ UNCHANGED <<history, snapshot>>

DecodeTextCall(text) ==
    \E r \in {DecodeText(hmm, text)} :
        /\ hmm' = r.m
        /\ op' = "decode_text"
        /\ arg' = text
        /\ ret' = r.ret
        /\ locals' = NoLocals
        /\ UNCHANGED <<history, snapshot>>

TransitionLogDistributionCall(state) ==
    /\ op' = "transition_log_distribution"
    /\ arg' = state
    /\ ret' = TransitionLogDistribution(hmm, state)
    /\ locals' = NoLocals
    /\ UNCHANGED <<hmm, history, snapshot>>

EmissionLogDistributionCall(state) ==
    /\ op' = "emission_log_distribution"
    /\ arg' = state
    /\ ret' = EmissionLogDistribution(hmm, state)
    /\ locals' = NoLocals
    /\ UNCHANGED <<hmm, history, snapshot>>

Next ==
    \/ \E pairs \in SeqsUpTo(PairUniverse, MaxPairs - Len(history)) :
          Train(pairs)
    \/ \E word \in Words : DecodeWordCall(word)
    \/ \E text \in Texts : DecodeTextCall(text)
    \/ \E state \in QueryStates : TransitionLogDistributionCall(state)
    \/ \E state \in QueryStates : EmissionLogDistributionCall(state)

Spec == Init /\ [][Next]_vars

\* training only: every call is a train call
NextTrain ==
    \E pairs \in SeqsUpTo(PairUniverse, MaxPairs - Len(history)) : Train(pairs)

SpecTrain == Init /\ [][NextTrain]_vars

\* training only, with two more pairs: one whose typed string is the longer
\* one, and one whose typed string is empty after trimming
CountUniverse ==
    PairUniverse \cup { <<<<"e">>, <<"e", "h">>>>, <<<<"h">>, <<" ">>>> }

NextCount ==
    \E pairs \in SeqsUpTo(CountUniverse, MaxPairs - Len(history)) : Train(pairs)

SpecCount == Init /\ [][NextCount]_vars

-----------------------------------------------------------------------------
(* Definitions the properties share *)

\* the state sequences of length n over the alphabet
StateSeqs(m, n) == [1..n -> Range(m.states)]

\* emission log-probs of positions i.. of seq, plus the transition log-probs
\* between them, plus the closing transition to END_STATE
RECURSIVE PathScoreFrom(_, _, _, _)
PathScoreFrom(m, observed, seq, i) ==
    LogAdd(LogEmissionProb(m, seq[i], observed[i]),
           IF i = Len(seq)
           THEN LogTransitionProb(m, seq[i], END_STATE)
           ELSE LogAdd(LogTransitionProb(m, seq[i], seq[i + 1]),
                       PathScoreFrom(m, observed, seq, i + 1)))

\* the total score of the state sequence seq for the observations
PathScore(m, observed, seq) ==
    LogAdd(LogStartProb(m, seq[1]), PathScoreFrom(m, observed, seq, 1))

\* the last call was decode_word and it went past the early return
Searched == op = "decode_word" /\ locals.viterbi # <<>>

\* the last call was decode_word and it found a final state
Decoded == op = "decode_word" /\ locals.final_state # None

\* the last call was decode_word and it returned through a fallback
FellBack == op = "decode_word" /\ locals.final_state = None

HasCased(s) == \E i \in DOMAIN s : CharIsCased(s[i])

-----------------------------------------------------------------------------
(* C1 *)

\* C1: whenever decode_word does not fall back, the lowercase of what it
\* returns is a state sequence of the word's length over the alphabet, its
\* total score is finite, and no state sequence of that length scores more.
C1_ViterbiOptimal ==
    Decoded =>
        LET observed == StrLower(arg)
            best     == StrLower(ret)
        IN  /\ Len(best) = Len(arg)
            /\ \A i \in DOMAIN best : best[i] \in Range(hmm.states)
            /\ IsFinite(PathScore(hmm, observed, best))
            /\ \A seq \in StateSeqs(hmm, Len(arg)) :
                   LogGE(PathScore(hmm, observed, best),
                         PathScore(hmm, observed, seq))

\* a decode that chose between finite paths of different scores and changed
\* the word
C1_Witness ==
    /\ Decoded
    /\ StrLower(ret) # StrLower(arg)
    /\ \E seq \in StateSeqs(hmm, Len(arg)) :
           /\ IsFinite(PathScore(hmm, StrLower(arg), seq))
           /\ ~LogGE(PathScore(hmm, StrLower(arg), seq),
                     PathScore(hmm, StrLower(arg), StrLower(ret)))

-----------------------------------------------------------------------------
(* C2 *)

\* C2: a decode_word or decode_text call leaves every field of the model
\* as it was.
C2_DecodeReadOnly ==
    [][op' \in {"decode_word", "decode_text"} => hmm' = hmm]_vars

-----------------------------------------------------------------------------
(* C3 *)

\* C3: decode_word returns its argument unchanged when the word is empty or
\* the alphabet is empty.
C3_IdentityOnEmpty ==
    (op = "decode_word" /\ (arg = <<>> \/ hmm.states = <<>>)) => ret = arg

\* a mixed-case word decoded by a model that was trained on skipped pairs only
C3_Witness ==
    /\ op = "decode_word"
    /\ history # <<>>
    /\ hmm.states = <<>>
    /\ arg # <<>>
    /\ arg # StrLower(arg)
    /\ ret = arg

-----------------------------------------------------------------------------
(* C4 *)

\* some character of the observations is an emission of no state
UnseenCharacter(m, observed) ==
    \E i \in DOMAIN observed :
        \A state \in Range(m.states) :
            ~IsFinite(LogEmissionProb(m, state, observed[i]))

\* C4: when no state sequence of the word's length has a finite total score
\* (in particular when a character of the word is an emission of no state),
\* decode_word returns the word itself, in its own case, and raises nothing.
C4_FallbackIdentity ==
    (op = "decode_word" /\ arg # <<>>) =>
        /\ (\A seq \in StateSeqs(hmm, Len(arg)) :
                ~IsFinite(PathScore(hmm, StrLower(arg), seq)))
           => ret = arg
        /\ UnseenCharacter(hmm, StrLower(arg)) => ret = arg

\* a fallback on a word with an uppercase letter, although a state is
\* reachable at the last position: only the closing transition is missing
C4_Witness ==
    /\ Searched
    /\ locals.final_state = None
    /\ \E state \in Range(hmm.states) :
           IsFinite(DictGet(locals.viterbi[Len(arg)], state, NEG_INF))
    /\ arg # StrLower(arg)
    /\ ret = arg

-----------------------------------------------------------------------------
(* C5 *)

\* decode_word(w.upper()) = decode_word(w).upper(), for the last call's w
UpperLaw == DecodeWord(hmm, StrUpper(arg)).ret = StrUpper(ret)

\* decode_word(w.capitalize()) = decode_word(w).capitalize()
CapitalizeLaw == DecodeWord(hmm, StrCapitalize(arg)).ret = StrCapitalize(ret)

\* C5 as stated: both case laws hold for every word.
C5_CaseLawsEveryWord ==
    op = "decode_word" => (UpperLaw /\ CapitalizeLaw)

\* C5 as amended: the upper law holds for every word that has a cased letter
\* and for every word decode_word falls back on; the capitalize law holds for
\* every word whose first character is a cased letter and that is one
\* character long or has a second cased letter, and for every word
\* decode_word falls back on.
C5_CaseLawsCasedWords ==
    op = "decode_word" =>
        /\ (HasCased(arg) \/ FellBack) => UpperLaw
        /\ (\/ FellBack
            \/ /\ arg # <<>>
               /\ CharIsCased(arg[1])
               /\ \/ Len(arg) = 1
                  \/ \E i \in 2..Len(arg) : CharIsCased(arg[i]))
           => CapitalizeLaw

\* a successful decode of a word of mixed letters and digits
C5_Witness ==
    /\ Decoded
    /\ HasCased(arg)
    /\ \E i \in DOMAIN arg : ~CharIsCased(arg[i])
    /\ StrLower(ret) # StrLower(arg)
    /\ UpperLaw

-----------------------------------------------------------------------------
(* C6 *)

ScenarioPairs ==
    << <<<<"t", "h", "e">>, <<"t", "h", "e">>>>,
       <<<<"t", "h", "e">>, <<"t", "e", "h">>>>,
       <<<<"t", "h", "e">>, <<"t", "h", "e">>>> >>

\* C6: after one train call on ScenarioPairs applied to an empty model, the
\* alphabet is {e, h, t}, t goes to h only (probability 1), e emits e (2/3)
\* before h (1/3), and teh, the, TEH, Teh and the text "teh teh" decode to
\* the, the, THE, The and "the the".
C6_WorkedScenario ==
    (op = "train" /\ arg = ScenarioPairs /\ history = ScenarioPairs) =>
        /\ hmm.states = <<"e", "h", "t">>
        /\ hmm.state_set = {"e", "h", "t"}
        /\ TransitionLogDistribution(hmm, "t") = << <<"h", Log(1, 1)>> >>
        /\ EmissionLogDistribution(hmm, "e") =
               << <<"e", Log(2, 3)>>, <<"h", Log(1, 3)>> >>
        /\ DecodeWord(hmm, <<"t", "e", "h">>).ret = <<"t", "h", "e">>
        /\ DecodeWord(hmm, <<"t", "h", "e">>).ret = <<"t", "h", "e">>
        /\ DecodeWord(hmm, <<"T", "E", "H">>).ret = <<"T", "H", "E">>
        /\ DecodeWord(hmm, <<"T", "e", "h">>).ret = <<"T", "h", "e">>
        /\ DecodeText(hmm, <<"t", "e", "h", " ", "t", "e", "h">>).ret =
               <<"t", "h", "e", " ", "t", "h", "e">>

\* the scenario's train call has just returned
C6_Witness ==
    /\ op = "train"
    /\ arg = ScenarioPairs
    /\ history = ScenarioPairs
    /\ hmm.start_total = 3

-----------------------------------------------------------------------------
(* C7 *)

InspectorOps == {"transition_log_distribution", "emission_log_distribution"}

\* the finalized table an inspector reads
TableOf(o, m) ==
    IF o = "transition_log_distribution" THEN m.transition_log_probs
    ELSE m.emission_log_probs

\* C7: an inspector returns exactly the entries the table holds for the
\* state, none before one of greater log-probability; nothing for a state
\* the table does not hold; and it leaves the model as it was.
C7_InspectorSorted ==
    [][op' \in InspectorOps =>
         LET entries == DictGet(TableOf(op', hmm), arg', <<>>)
         IN  /\ hmm' = hmm
             /\ Len(ret') = Len(entries)
             /\ Range(ret') = Range(entries)
             /\ \A i, j \in DOMAIN ret' :
                    i < j => LogGE(ret'[i][2], ret'[j][2])
             /\ ~DictHas(TableOf(op', hmm), arg') => ret' = <<>>]_vars

\* an inspector call that had to reorder the table's entries
C7_Witness ==
    /\ op \in InspectorOps
    /\ Len(ret) >= 2
    /\ ret # DictGet(TableOf(op, hmm), arg, <<>>)

-----------------------------------------------------------------------------
(* C8 *)

\* C8: however the pairs were split over train calls, the model is the one
\* a single train call on all of them leaves from an empty model.
C8_TrainAccumulates == hmm = TrainModel(EmptyModel, history)

\* a train call that counted its pairs on top of an earlier call's counts
C8_Witness ==
    /\ op = "train"
    /\ Len(arg) >= 1
    /\ Len(history) > Len(arg)
    /\ hmm.start_total = Len(history)

-----------------------------------------------------------------------------
(* C9 *)

\* C9: every decode_word call returns what the same call returns on the
\* model as train left it, whatever calls have been made since.
C9_Deterministic ==
    op = "decode_word" => ret = DecodeWord(snapshot, arg).ret

\* a search on a model that differs from the one train left
C9_Witness ==
    /\ Searched
    /\ hmm # snapshot
    /\ ret = DecodeWord(snapshot, arg).ret

-----------------------------------------------------------------------------
(* C10 *)

\* score[i-1][p] + transitionLogProb(p, c), from the scores the call kept
Candidate(i, p, c) ==
    LogAdd(DictGet(locals.viterbi[i - 1], p, NEG_INF),
           LogTransitionProb(hmm, p, c))

FiniteCandidates(i, c) ==
    {p \in Range(hmm.states) : IsFinite(Candidate(i, p, c))}

FinalScore(state) ==
    LogAdd(DictGet(locals.viterbi[Len(arg)], state, NEG_INF),
           LogTransitionProb(hmm, state, END_STATE))

FiniteFinals == {state \in Range(hmm.states) : IsFinite(FinalScore(state))}

\* the first in sorted order of the predecessors with the greatest finite
\* candidate score for state c at position i
FirstMaximumPrev(i, c) ==
    CHOOSE p \in FiniteCandidates(i, c) :
        \A q \in FiniteCandidates(i, c) :
            \/ LogGT(Candidate(i, p, c), Candidate(i, q, c))
            \/ /\ Candidate(i, p, c) = Candidate(i, q, c)
               /\ CodePoint(p) <= CodePoint(q)

\* the first in sorted order of the states with the greatest finite final
\* score
FirstMaximumFinal ==
    CHOOSE p \in FiniteFinals :
        \A q \in FiniteFinals :
            \/ LogGT(FinalScore(p), FinalScore(q))
            \/ /\ FinalScore(p) = FinalScore(q)
               /\ CodePoint(p) <= CodePoint(q)

\* C10: at every position after the first and for every current state, the
\* predecessor chosen is the first in sorted order of those with the
\* greatest finite candidate score, and a state with no finite candidate
\* gets -inf and no path; the final state is the first in sorted order of
\* those with the greatest finite final score.
C10_FirstMaximum ==
    Searched =>
        /\ \A i \in 2..Len(arg) : \A c \in Range(hmm.states) :
               IF FiniteCandidates(i, c) = {}
               THEN /\ DictGet(locals.best_prevs[i], c, c) = None
                    /\ DictHas(locals.viterbi[i], c)
                    /\ DictGet(locals.viterbi[i], c, NEG_INF) = NEG_INF
                    /\ i = Len(arg) => ~DictHas(locals.path, c)
               ELSE DictGet(locals.best_prevs[i], c, c) = FirstMaximumPrev(i, c)
        /\ IF FiniteFinals = {}
           THEN locals.final_state = None
           ELSE locals.final_state = FirstMaximumFinal

\* a decode with two predecessors tied for the greatest candidate score and
\* two final states tied for the greatest final score
C10_Witness ==
    /\ Decoded
    /\ \E i \in 2..Len(arg) : \E c \in Range(hmm.states) :
           \E p, q \in FiniteCandidates(i, c) :
               /\ p # q
               /\ Candidate(i, p, c) = Candidate(i, q, c)
               /\ \A r \in FiniteCandidates(i, c) :
                      LogGE(Candidate(i, p, c), Candidate(i, r, c))
    /\ \E s \in FiniteFinals :
           /\ s # locals.final_state
           /\ FinalScore(s) = FinalScore(locals.final_state)

-----------------------------------------------------------------------------
(* C11 *)

\* a training string as the counts see it: trimmed, then lowercased
Trimmed(raw) == StrLower(StrStrip(raw))

\* the pair is counted: neither string is empty after trimming
Counted(pair) == Trimmed(pair[1]) # <<>> /\ Trimmed(pair[2]) # <<>>

CountedIn(pairs) == {k \in DOMAIN pairs : Counted(pairs[k])}

\* the positions of the correct strings of the counted pairs
Positions(pairs) ==
    UNION {{<<k, i>> : i \in 1..Len(Trimmed(pairs[k][1]))} :
           k \in CountedIn(pairs)}

Min(a, b) == IF a <= b THEN a ELSE b

\* what the pairs add to the count of starts in state
StartAdds(pairs, state) ==
    Cardinality({k \in CountedIn(pairs) : Trimmed(pairs[k][1])[1] = state})

\* what the pairs add to the count of transitions from prev to next: one per
\* adjacent letter pair, and one from the last letter to END_STATE
TransitionAdds(pairs, prev, next) ==
    Cardinality({p \in Positions(pairs) :
        LET correct == Trimmed(pairs[p[1]][1])
            i       == p[2]
        IN  /\ correct[i] = prev
            /\ IF i < Len(correct) THEN correct[i + 1] = next
               ELSE next = END_STATE})

\* what the pairs add to the count of state emitting observation: one per
\* position that both strings have
EmissionAdds(pairs, state, observation) ==
    Cardinality({p \in Positions(pairs) :
        LET correct == Trimmed(pairs[p[1]][1])
            typed   == Trimmed(pairs[p[1]][2])
            i       == p[2]
        IN  /\ i <= Len(typed)
            /\ correct[i] = state
            /\ typed[i] = observation})

\* what the pairs add to the total of transitions leaving prev
LeavingAdds(pairs, prev) ==
    Cardinality({p \in Positions(pairs) :
        Trimmed(pairs[p[1]][1])[p[2]] = prev})

\* what the pairs add to the total of emissions of state
EmittedAdds(pairs, state) ==
    Cardinality({p \in Positions(pairs) :
        /\ p[2] <= Len(Trimmed(pairs[p[1]][2]))
        /\ Trimmed(pairs[p[1]][1])[p[2]] = state})

\* len(correct), summed over the counted pairs
RECURSIVE SumLen(_)
SumLen(pairs) ==
    IF pairs = <<>> THEN 0
    ELSE (IF Counted(pairs[1]) THEN Len(Trimmed(pairs[1][1])) ELSE 0)
         + SumLen(Tail(pairs))

\* min(len(correct), len(typed)), summed over the counted pairs
RECURSIVE SumMinLen(_)
SumMinLen(pairs) ==
    IF pairs = <<>> THEN 0
    ELSE (IF Counted(pairs[1])
          THEN Min(Len(Trimmed(pairs[1][1])), Len(Trimmed(pairs[1][2])))
          ELSE 0)
         + SumMinLen(Tail(pairs))

\* the sum of a Counter's counts
RECURSIVE Total(_)
Total(counter) ==
    IF counter = <<>> THEN 0 ELSE counter[1][2] + Total(Tail(counter))

\* the sum of all counts of a table of Counters
RECURSIVE GrandTotal(_)
GrandTotal(table) ==
    IF table = <<>> THEN 0 ELSE Total(table[1][2]) + GrandTotal(Tail(table))

\* table[a][b], 0 where there is no entry
CountAt(table, a, b) == DictGet(DictGet(table, a, <<>>), b, 0)

\* every key of the tables after the call, and every character of the pairs
KeysAfter ==
    UNION { DictKeys(hmm'.start_counts),
            DictKeys(hmm'.transition_counts), DictKeys(hmm'.emission_counts),
            DictKeys(hmm'.transition_totals), DictKeys(hmm'.emission_totals),
            UNION {DictKeys(hmm'.transition_counts[i][2]) :
                   i \in DOMAIN hmm'.transition_counts},
            UNION {DictKeys(hmm'.emission_counts[i][2]) :
                   i \in DOMAIN hmm'.emission_counts},
            UNION {Range(Trimmed(arg'[k][1])) \cup Range(Trimmed(arg'[k][2])) :
                   k \in DOMAIN arg'},
            {END_STATE} }

\* C11: a train call adds, for every pair that has both strings non-empty
\* after trimming, one start count for the first correct letter, one
\* transition count per adjacent letter pair and one from the last letter to
\* END, and one emission count correct[i] -> typed[i] for each position both
\* strings have (len(correct) transition counts and min(len(correct),
\* len(typed)) emission counts in all, nothing for positions beyond
\* len(typed)); a pair with an empty string after trimming changes no count
\* and adds no state to the alphabet.
C11_PairCounts ==
    [][op' = "train" =>
        LET pairs == arg'
            old   == hmm
            new   == hmm'
        IN  /\ new.start_total = old.start_total + Cardinality(CountedIn(pairs))
            /\ Total(new.start_counts) =
                   Total(old.start_counts) + Cardinality(CountedIn(pairs))
            /\ GrandTotal(new.transition_counts) =
                   GrandTotal(old.transition_counts)
                   + SumLen(pairs)
            /\ GrandTotal(new.emission_counts) =
                   GrandTotal(old.emission_counts)
                   + SumMinLen(pairs)
            /\ \A a \in KeysAfter :
                  /\ DictGet(new.start_counts, a, 0) =
                         DictGet(old.start_counts, a, 0) + StartAdds(pairs, a)
                  /\ DictGet(new.transition_totals, a, 0) =
                         DictGet(old.transition_totals, a, 0)
                         + LeavingAdds(pairs, a)
                  /\ DictGet(new.emission_totals, a, 0) =
                         DictGet(old.emission_totals, a, 0)
                         + EmittedAdds(pairs, a)
                  /\ \A b \in KeysAfter :
                        /\ CountAt(new.transition_counts, a, b) =
                               CountAt(old.transition_counts, a, b)
                               + TransitionAdds(pairs, a, b)
                        /\ CountAt(new.emission_counts, a, b) =
                               CountAt(old.emission_counts, a, b)
                               + EmissionAdds(pairs, a, b)
            /\ new.state_set =
                   (old.state_set
                    \cup UNION {Range(Trimmed(pairs[k][1])) :
                                k \in CountedIn(pairs)}) \ {NL}
            /\ CountedIn(pairs) = {} =>
                  /\ new.start_counts = old.start_counts
                  /\ new.start_total = old.start_total
                  /\ new.transition_counts = old.transition_counts
                  /\ new.transition_totals = old.transition_totals
                  /\ new.emission_counts = old.emission_counts
                  /\ new.emission_totals = old.emission_totals
                  /\ new.state_set = old.state_set
    ]_vars

\* a train call on a skipped pair and a pair whose typed string is the
\* shorter one, on top of the counts of a pair whose typed string is the
\* longer one
C11_Witness ==
    /\ op = "train"
    /\ Len(history) > Len(arg)
    /\ \E k \in DOMAIN arg : ~Counted(arg[k])
    /\ \E k \in DOMAIN arg :
          /\ Counted(arg[k])
          /\ Len(Trimmed(arg[k][2])) < Len(Trimmed(arg[k][1]))
    /\ \E k \in DOMAIN history :
          /\ Counted(history[k])
          /\ Len(Trimmed(history[k][2])) > Len(Trimmed(history[k][1]))
    /\ GrandTotal(hmm.emission_counts) < GrandTotal(hmm.transition_counts)
    /\ hmm.start_total < Len(history)

=============================================================================
